---- MODULE Spec2Model ----
(***************************************************************************)
(* Model of src/game_manager.py: the Game class (one match of the          *)
(* impostor word game).  Every public method of Game is one action; a      *)
(* method that raises (KeyError, AttributeError) keeps the assignments it  *)
(* made before the raise, as the Python object does.                       *)
(*                                                                         *)
(* Text (clues, secret words) is a sequence of one-character strings so    *)
(* that upper(), strip() and split() are computed, not assumed.            *)
(* A dict is a function and its insertion order is not kept.  The only    *)
(* result that depends on it is which count survives in the name-keyed     *)
(* vote tally when two counted ids share a label: there the model allows   *)
(* every order the dicts may have had.                                     *)
(***************************************************************************)
EXTENDS Integers, Sequences, FiniteSets, TLC

(* ------------------------------ constants ------------------------------ *)

MIN_PLAYERS == 3

ABSTENCAO == "ABSTENÇÃO"

PLACEHOLDER == << "(Pista Perdida - Tempo Esgotado)" >>

None == "None"

(* ------------------------------- bounds -------------------------------- *)

\* Number of word pairs in the list handed to the Game constructor.
MaxWordPairs == 1

\* How far past a deadline the clock is advanced before a call is made.
MaxLate == 0

host_id == "p1"

host_name == "Ana"

\* The people holding the link of the match: id -> the name they give.
\* Ids and names are caller-supplied strings; two clients may give the
\* same name, and an id may be the string the code uses as its
\* abstention marker.
ThreeClients == [p1 |-> host_name, p2 |-> "Bia", p3 |-> "Caio"]

SameNameClients == [p1 |-> host_name, p2 |-> host_name, p3 |-> "Caio"]

MarkerIdClients == ("p1" :> host_name) @@ ("p2" :> "Bia") @@ (ABSTENCAO :> "Zeca")

\* GameConfig(clue_time, vote_time, rounds_per_player)
GameConfig(c, v, r) == [clue_time |-> c, vote_time |-> v, rounds_per_player |-> r]

\* The runs explored: a configuration and the clients around it.
Scenarios ==
    { [config |-> GameConfig(1, 1, 1), clients |-> ThreeClients],
      [config |-> GameConfig(1, 1, 1), clients |-> SameNameClients],
      [config |-> GameConfig(1, 1, 1), clients |-> MarkerIdClients],
      [config |-> GameConfig(1, 1, 0), clients |-> ThreeClients],
      [config |-> GameConfig(0, 0, 2), clients |-> ThreeClients] }

\* The runs explored with every return value recorded.
ObservedScenarios ==
    { [config |-> GameConfig(1, 1, 1), clients |-> ThreeClients] }

\* The same with a clue time of zero seconds.
TwinScenarios ==
    { [config |-> GameConfig(1, 1, 1), clients |-> ThreeClients],
      [config |-> GameConfig(0, 0, 1), clients |-> MarkerIdClients] }

ZeroClueTimeScenarios ==
    { [config |-> GameConfig(0, 1, 1), clients |-> ThreeClients] }

(* -------------------------------- text --------------------------------- *)

Range(f) == {f[i] : i \in DOMAIN f}

DEFAULT_WORD_PAIRS ==
    << [inocente |-> <<"C","a","c","h","o","r","r","o">>,
        impostor |-> <<"G","a","t","o">>],
       [inocente |-> <<"B","a","n","a","n","a">>,
        impostor |-> <<"M","a","ç","ã">>],
       [inocente |-> <<"I","n","t","e","r","n","e","t">>,
        impostor |-> <<"I","n","t","r","a","n","e","t">>],
       [inocente |-> <<"P","i","z","z","a">>,
        impostor |-> <<"H","a","m","b","ú","r","g","u","e","r">>],
       [inocente |-> <<"C","a","f","é">>,
        impostor |-> <<"C","h","á">>] >>

\* The list handed to the constructor: the first pairs of the default list.
words == SubSeq(DEFAULT_WORD_PAIRS, 1, MaxWordPairs)

LowerCase ==
    <<"a","b","c","d","e","f","g","h","i","j","k","l","m","n","o","p",
      "q","r","s","t","u","v","w","x","y","z","á","ã","ç","é","ú">>

UpperCase ==
    <<"A","B","C","D","E","F","G","H","I","J","K","L","M","N","O","P",
      "Q","R","S","T","U","V","W","X","Y","Z","Á","Ã","Ç","É","Ú">>

LowerToUpper ==
    [c \in Range(LowerCase) |->
        UpperCase[CHOOSE i \in DOMAIN LowerCase : LowerCase[i] = c]]

\* str.upper()
Upper(s) ==
    [i \in 1..Len(s) |->
        IF s[i] \in DOMAIN LowerToUpper THEN LowerToUpper[s[i]] ELSE s[i]]

IsSpace(c) == c = " "

RECURSIVE LStrip(_)
LStrip(s) ==
    IF s # <<>> /\ IsSpace(Head(s)) THEN LStrip(Tail(s)) ELSE s

RECURSIVE RStrip(_)
RStrip(s) ==
    IF s # <<>> /\ IsSpace(s[Len(s)])
    THEN RStrip(SubSeq(s, 1, Len(s) - 1)) ELSE s

\* str.strip()
Strip(s) == RStrip(LStrip(s))

\* str.split(): the whitespace-delimited tokens of s.
RECURSIVE SplitFrom(_, _, _)
SplitFrom(s, cur, acc) ==
    IF s = <<>>
    THEN IF cur = <<>> THEN acc ELSE Append(acc, cur)
    ELSE IF IsSpace(Head(s))
         THEN SplitFrom(Tail(s), <<>>,
                        IF cur = <<>> THEN acc ELSE Append(acc, cur))
         ELSE SplitFrom(Tail(s), Append(cur, Head(s)), acc)

Split(s) == SplitFrom(s, <<>>, <<>>)

\* Clue texts a player may send in a match whose secret words are wp: a
\* word, the word padded with blanks, two words, nothing, and the two
\* secret words (the impostor's in capitals, the innocents' as written
\* with a blank after it).
ClueInputs(wp) ==
    { <<"s","o","l">>,
      <<" ","S","o","l"," ">>,
      <<"a"," ","b">>,
      <<>> }
    \cup (IF wp = <<>> THEN {}
          ELSE {Upper(wp.impostor), Append(wp.inocente, " ")})

(* -------------------------------- state -------------------------------- *)

VARIABLES
    config,               \* self.config (GameConfig), fixed at construction
    clients,              \* the clients of this run: id -> name
    observe,              \* whether return values are recorded in ret
    players,              \* self.players: id -> Player
    status,               \* self.status
    impostor_id,          \* self.impostor_id
    word_pair,            \* self.word_pair
    current_round,        \* self.current_round
    current_turn_index,   \* self.current_turn_index (0-based, -1 before start)
    players_turn_order,   \* self.players_turn_order
    clues,                \* self.clues
    votes,                \* self.votes: voter id -> voted id or marker
    timer_start_time,     \* self.timer_start_time: None, or "set"
    elapsed,              \* time.time() - self.timer_start_time
    timer_duration,       \* self.timer_duration
    timer_paused,         \* self.timer_paused
    results,              \* self.results (<<>> stands for {})
    ret,                  \* what the last call returned, or that it raised
    twin                  \* a second Game object given the same calls at the
                          \* same times (<<>> where none is run)

gameVars ==
    << players, status, impostor_id, word_pair, current_round,
       current_turn_index, players_turn_order, clues, votes,
       timer_start_time, elapsed, timer_duration, timer_paused, results >>

\* What no call changes.
fixed == << config, clients, observe >>

vars == << fixed, gameVars, ret, twin >>

\* The Game object as one value.
Self ==
    [ players            |-> players,
      status             |-> status,
      impostor_id        |-> impostor_id,
      word_pair          |-> word_pair,
      current_round      |-> current_round,
      current_turn_index |-> current_turn_index,
      players_turn_order |-> players_turn_order,
      clues              |-> clues,
      votes              |-> votes,
      timer_start_time   |-> timer_start_time,
      elapsed            |-> elapsed,
      timer_duration     |-> timer_duration,
      timer_paused       |-> timer_paused,
      results            |-> results ]

\* The object after a call: g holds every field as the call left it.
Commit(g) ==
    /\ players' = g.players
    /\ status' = g.status
    /\ impostor_id' = g.impostor_id
    /\ word_pair' = g.word_pair
    /\ current_round' = g.current_round
    /\ current_turn_index' = g.current_turn_index
    /\ players_turn_order' = g.players_turn_order
    /\ clues' = g.clues
    /\ votes' = g.votes
    /\ timer_start_time' = g.timer_start_time
    /\ elapsed' = g.elapsed
    /\ timer_duration' = g.timer_duration
    /\ timer_paused' = g.timer_paused
    /\ results' = g.results

\* What a call returned.  kind is the tag of the returned value ("True",
\* "False", "error", "success", "GAME_OVER", "TURN_SKIPPED", "None"), or
\* "raise" when the call raised instead; error names the error message of
\* an "error" dict; val is votos_restantes where the code returns it.
\* Return values are recorded only in the runs that observe them.
NoRet == [op |-> "-", kind |-> "-", error |-> "", val |-> 0]

RetOf(op, kind, error, val) ==
    IF observe THEN [op |-> op, kind |-> kind, error |-> error, val |-> val]
    ELSE NoRet

Ret(op, kind) == RetOf(op, kind, "", 0)

Error(op, error) == RetOf(op, "error", error, 0)

Player(name) ==
    [ name |-> name, role |-> None, word |-> <<>>,
      has_given_clue |-> FALSE, has_voted |-> FALSE ]

\* list[i] with Python's 0-based index (a negative i counts from the end).
At(list, i) == IF i >= 0 THEN list[i + 1] ELSE list[Len(list) + i + 1]

Ids == DOMAIN clients

\* Mutant of Shuffles: draws with replacement (random.choices), so an id
\* may be seated twice and another not at all.
ShufflesWithRepeats(S) == [1..Cardinality(S) -> S]

\* Every order random.shuffle may leave the list in.
Shuffles(S) ==
    {o \in [1..Cardinality(S) -> S] : \A i, j \in DOMAIN o : i # j => o[i] # o[j]}

(* ------------------------ _start_next_player_turn ---------------------- *)

_start_next_player_turn(g) ==
    LET i1    == g.current_turn_index + 1
        wrap  == i1 >= Len(g.players_turn_order)
        round == IF wrap THEN g.current_round + 1 ELSE g.current_round
        idx   == IF wrap THEN 0 ELSE i1
        g1    == [g EXCEPT !.current_turn_index = idx, !.current_round = round]
    IN  IF wrap /\ round > config.rounds_per_player
        THEN [ g |-> [g1 EXCEPT !.status = "VOTING",
                                !.timer_duration = config.vote_time,
                                !.timer_start_time = "set",
                                !.elapsed = 0],
               raised |-> FALSE ]
        ELSE LET g2  == [g1 EXCEPT !.status = "IN_PROGRESS",
                                   !.timer_duration = config.clue_time,
                                   !.timer_start_time = "set",
                                   !.elapsed = 0]
                 cur == At(g2.players_turn_order, idx)
             IN  IF cur \in DOMAIN g2.players
                 THEN [ g |-> [g2 EXCEPT !.players[cur].has_given_clue = FALSE],
                        raised |-> FALSE ]
                 ELSE [ g |-> g2, raised |-> TRUE ]   \* KeyError, line 185

(* ----------------------------- process_votes --------------------------- *)

\* collections.Counter(self.votes.values()): voted key -> count.
Counter(vs) ==
    [k \in Range(vs) |-> Cardinality({v \in DOMAIN vs : vs[v] = k})]

\* Lines 244-246: every player without a vote gets the abstention marker.
WithAbstentions(g) ==
    [p \in DOMAIN g.votes \cup DOMAIN g.players |->
        IF p \in DOMAIN g.votes THEN g.votes[p] ELSE ABSTENCAO]

\* Line 286: the tally keyed by player name.  In the dict comprehension a
\* later key with the same label replaces an earlier one, so the count
\* kept for a label is that of one of the keys carrying it.
TallyLabel(g, k) == IF k # ABSTENCAO THEN g.players[k].name ELSE ABSTENCAO

votes_tallies(g, vote_counts) ==
    LET labels == {TallyLabel(g, k) : k \in DOMAIN vote_counts}
        keysOf(l) == {k \in DOMAIN vote_counts : TallyLabel(g, k) = l}
    IN  { [l \in labels |-> vote_counts[last[l]]] :
            last \in {f \in [labels -> DOMAIN vote_counts] :
                        \A l \in labels : f[l] \in keysOf(l)} }

\* Lines 250-277: the winner, from the counted votes.  most_common()
\* puts a key of the highest count first; tied_votes are the keys that
\* share that count.
Winner(g, vote_counts) ==
    IF DOMAIN vote_counts = {} \/ DOMAIN vote_counts = {ABSTENCAO}
    THEN [winner |-> "IMPOSTOR", message |-> "NINGUEM_VOTOU_OU_ABSTEVE"]
    ELSE LET most_voted_tally == DOMAIN vote_counts \ {ABSTENCAO}
         IN  IF most_voted_tally = {}
             THEN [winner |-> "IMPOSTOR", message |-> "NINGUEM_VOTOU"]
             ELSE LET count == CHOOSE c \in {vote_counts[k] : k \in most_voted_tally} :
                                   \A k \in most_voted_tally : vote_counts[k] <= c
                      tied_votes == {k \in most_voted_tally : vote_counts[k] = count}
                  IN  IF Cardinality(tied_votes) > 1
                      THEN [winner |-> "IMPOSTOR", message |-> "EMPATE"]
                      ELSE IF tied_votes = {g.impostor_id}
                      THEN [winner |-> "INOCENTES", message |-> "SUCESSO"]
                      ELSE [winner |-> "IMPOSTOR", message |-> "FRACASSO"]

\* Whether process_votes raises.  Every lookup that can fail comes after
\* the assignments of lines 240-246 and before the assignment of
\* self.results: self.players[most_voted_id] (265) for the most voted id,
\* self.players[self.impostor_id] (254, 261, 271, 277, 282) for the
\* impostor, and self.players.get(k, k).name (286) for every voted id.
ProcessVotesRaises(g, vote_counts) ==
    \/ g.impostor_id \notin DOMAIN g.players
    \/ \E k \in DOMAIN vote_counts : k # ABSTENCAO /\ k \notin DOMAIN g.players

\* The outcomes of process_votes: one, unless two counted ids share a label.
process_votes(g) ==
    LET g1 == [g EXCEPT !.status = "FINISHED",
                        !.timer_paused = TRUE,
                        !.votes = WithAbstentions(g)]
        vote_counts == Counter(g1.votes)
        w == Winner(g1, vote_counts)
    IN  IF ProcessVotesRaises(g1, vote_counts)
        THEN { [ g |-> g1, raised |-> TRUE ] }
        ELSE { [ g |-> [g1 EXCEPT !.results =
                          [ winner        |-> w.winner,
                            message       |-> w.message,
                            impostor_name |-> g1.players[g1.impostor_id].name,
                            real_word     |-> g1.word_pair.inocente,
                            fake_word     |-> g1.word_pair.impostor,
                            all_clues     |-> g1.clues,
                            votes_tally   |-> tally ]],
                 raised |-> FALSE ] : tally \in votes_tallies(g1, vote_counts) }

(* --------------------------- get_public_state ------------------------- *)

\* Mutant of to_public_dict: the role is sent along.
to_public_dict_WithRole(player_id, player) ==
    [id |-> player_id, name |-> player.name, role |-> player.role]

\* Player.to_public_dict()
to_public_dict(player_id, player) == [id |-> player_id, name |-> player.name]

\* Lines 68-69: the condition under which the seat of the turn is read.
SeatIsRead(g) ==
    /\ g.status = "IN_PROGRESS"
    /\ g.players_turn_order # <<>>
    /\ g.current_turn_index >= 0

\* Lines 71-74: the seconds left on the timer (the clock is read in whole
\* seconds, so int(elapsed) is elapsed).
remaining_time(g) ==
    IF g.timer_start_time # None /\ ~g.timer_paused
    THEN IF g.timer_duration - g.elapsed > 0
         THEN g.timer_duration - g.elapsed ELSE 0
    ELSE 0

\* get_public_state(): the dict returned, or the fact that the call
\* raised (KeyError at line 68 when the seated id is not in players).
\* The game id is left out; the players list is kept as the set of its
\* entries.
get_public_state(g) ==
    LET cur == At(g.players_turn_order, g.current_turn_index)
    IN  IF SeatIsRead(g) /\ cur \notin DOMAIN g.players
        THEN [raised |-> TRUE, value |-> <<>>]
        ELSE [raised |-> FALSE,
              value |->
                [ status       |-> g.status,
                  players      |-> {to_public_dict(p, g.players[p]) :
                                       p \in DOMAIN g.players},
                  player_count |-> Cardinality(DOMAIN g.players),
                  min_players  |-> MIN_PLAYERS,
                  config       |-> config,
                  clues        |-> g.clues,
                  current_round |-> g.current_round,
                  current_turn |-> IF SeatIsRead(g)
                                   THEN g.players[cur].name ELSE None,
                  current_player_id |-> IF SeatIsRead(g) THEN cur ELSE None,
                  timer        |-> remaining_time(g),
                  total_players_to_vote |->
                      IF g.status = "VOTING"
                      THEN Cardinality(DOMAIN g.players) ELSE 0,
                  votes_count  |-> Cardinality(DOMAIN g.votes),
                  results      |-> IF g.status = "FINISHED"
                                   THEN g.results ELSE <<>> ]]

\* get_private_player_data(player_id): the word and role of a player who
\* has them, None otherwise; players.get() never raises.
get_private_player_data(g, player_id) ==
    IF /\ player_id \in DOMAIN g.players
       /\ g.players[player_id].role # None
       /\ g.players[player_id].word # <<>>
    THEN [word |-> g.players[player_id].word, role |-> g.players[player_id].role]
    ELSE None

(* ------------------------------- __init__ ------------------------------ *)

InitGame ==
    /\ players = (host_id :> Player(host_name))
    /\ status = "WAITING_FOR_PLAYERS"
    /\ impostor_id = None
    /\ word_pair = <<>>
    /\ current_round = 0
    /\ current_turn_index = -1
    /\ players_turn_order = <<>>
    /\ clues = <<>>
    /\ votes = <<>>
    /\ timer_start_time = None
    /\ elapsed = 0
    /\ timer_duration = 0
    /\ timer_paused = FALSE
    /\ results = <<>>
    /\ ret = Ret("__init__", "None")

Init ==
    /\ observe = FALSE
    /\ \E sc \in Scenarios : config = sc.config /\ clients = sc.clients
    /\ InitGame
    /\ twin = <<>>

InitObserved ==
    /\ observe = TRUE
    /\ \E sc \in ObservedScenarios : config = sc.config /\ clients = sc.clients
    /\ InitGame
    /\ twin = <<>>

InitZeroClueTime ==
    /\ observe = TRUE
    /\ \E sc \in ZeroClueTimeScenarios :
          config = sc.config /\ clients = sc.clients
    /\ InitGame
    /\ twin = <<>>

\* Two Game objects constructed alike.
InitTwin ==
    /\ observe = FALSE
    /\ \E sc \in TwinScenarios : config = sc.config /\ clients = sc.clients
    /\ InitGame
    /\ twin = Self

(* ------------------------------ add_player ----------------------------- *)

add_player(player_id, name) ==
    IF status # "WAITING_FOR_PLAYERS" \/ player_id \in DOMAIN players
    THEN /\ ret' = Ret("add_player", "False")
         /\ UNCHANGED << fixed, gameVars >>
    ELSE /\ players' = players @@ (player_id :> Player(name))
         /\ ret' = Ret("add_player", "True")
         /\ UNCHANGED << fixed, status, impostor_id, word_pair, current_round,
                         current_turn_index, players_turn_order, clues, votes,
                         timer_start_time, elapsed, timer_duration,
                         timer_paused, results >>

(* ----------------------------- remove_player --------------------------- *)

remove_player(player_id) ==
    IF player_id \notin DOMAIN players
    THEN /\ ret' = Ret("remove_player", "False")
         /\ UNCHANGED << fixed, gameVars >>
    ELSE IF status # "WAITING_FOR_PLAYERS" /\ player_id # host_id
    THEN /\ ret' = Ret("remove_player", "False")
         /\ UNCHANGED << fixed, gameVars >>
    ELSE /\ players' = [p \in DOMAIN players \ {player_id} |-> players[p]]
         /\ ret' = Ret("remove_player", "True")
         /\ UNCHANGED << fixed, status, impostor_id, word_pair, current_round,
                         current_turn_index, players_turn_order, clues, votes,
                         timer_start_time, elapsed, timer_duration,
                         timer_paused, results >>

(* ------------------------------ start_game ----------------------------- *)

\* Lines 143-153: roles and words for the players of the turn order.
AssignRoles(ps, imp, wp) ==
    [p \in DOMAIN ps |->
        IF p = imp
        THEN [ps[p] EXCEPT !.role = "IMPOSTOR", !.word = wp.impostor]
        ELSE [ps[p] EXCEPT !.role = "INOCENTE", !.word = wp.inocente]]

\* Mutant of start_game: the test of line 128 lets two players start.
start_game_TwoPlayers ==
    IF Cardinality(DOMAIN players) < MIN_PLAYERS - 1
    THEN /\ ret' = Error("start_game", "min_players")
         /\ UNCHANGED << fixed, gameVars >>
    ELSE IF status # "WAITING_FOR_PLAYERS"
    THEN /\ ret' = Error("start_game", "already_started")
         /\ UNCHANGED << fixed, gameVars >>
    ELSE \E wp \in Range(words) :
         \E order \in Shuffles(DOMAIN players) :
         \E imp \in Range(order) :
            LET g1 == [Self EXCEPT !.status = "IN_PROGRESS",
                                   !.word_pair = wp,
                                   !.players_turn_order = order,
                                   !.impostor_id = imp,
                                   !.players = AssignRoles(players, imp, wp),
                                   !.current_round = 1,
                                   !.current_turn_index = -1]
                r  == _start_next_player_turn(g1)
            IN  /\ Commit(r.g)
                /\ ret' = Ret("start_game",
                              IF r.raised THEN "raise" ELSE "success")
                /\ UNCHANGED fixed

\* Mutant of start_game: the status check of line 130 is missing.
start_game_NoStatusCheck ==
    IF Cardinality(DOMAIN players) < MIN_PLAYERS
    THEN /\ ret' = Error("start_game", "min_players")
         /\ UNCHANGED << fixed, gameVars >>
    ELSE \E wp \in Range(words) :
         \E order \in Shuffles(DOMAIN players) :
         \E imp \in Range(order) :
            LET g1 == [Self EXCEPT !.status = "IN_PROGRESS",
                                   !.word_pair = wp,
                                   !.players_turn_order = order,
                                   !.impostor_id = imp,
                                   !.players = AssignRoles(players, imp, wp),
                                   !.current_round = 1,
                                   !.current_turn_index = -1]
                r  == _start_next_player_turn(g1)
            IN  /\ Commit(r.g)
                /\ ret' = Ret("start_game",
                              IF r.raised THEN "raise" ELSE "success")
                /\ UNCHANGED fixed

\* wp, order and imp are the three random draws of lines 134, 138, 141,
\* made once the two checks have passed.
start_game ==
    IF Cardinality(DOMAIN players) < MIN_PLAYERS
    THEN /\ ret' = Error("start_game", "min_players")
         /\ UNCHANGED << fixed, gameVars >>
    ELSE IF status # "WAITING_FOR_PLAYERS"
    THEN /\ ret' = Error("start_game", "already_started")
         /\ UNCHANGED << fixed, gameVars >>
    ELSE \E wp \in Range(words) :
         \E order \in Shuffles(DOMAIN players) :
         \E imp \in Range(order) :
            LET g1 == [Self EXCEPT !.status = "IN_PROGRESS",
                                   !.word_pair = wp,
                                   !.players_turn_order = order,
                                   !.impostor_id = imp,
                                   !.players = AssignRoles(players, imp, wp),
                                   !.current_round = 1,
                                   !.current_turn_index = -1]
                r  == _start_next_player_turn(g1)
            IN  /\ Commit(r.g)
                /\ ret' = Ret("start_game",
                              IF r.raised THEN "raise" ELSE "success")
                /\ UNCHANGED fixed

(* ------------------------------ submit_clue ---------------------------- *)

\* Lines 202-206: the clue as stored, and whether it is turned down.
clue_upper(clue) == Strip(Upper(clue))

NotSingleWord(cu) == cu = <<>> \/ Len(Split(cu)) > 1

IsSecretWord(cu, wp) ==
    /\ wp # <<>>
    /\ (cu = Upper(wp.inocente) \/ cu = Upper(wp.impostor))

\* Mutant of submit_clue: the player is marked as having given the clue
\* (line 209) before the clue is validated.
submit_clue_MarksEarly(player_id, clue) ==
    IF status # "IN_PROGRESS"
    THEN /\ ret' = Error("submit_clue", "not_clue_phase")
         /\ UNCHANGED << fixed, gameVars >>
    ELSE IF player_id # At(players_turn_order, current_turn_index)
    THEN /\ ret' = Error("submit_clue", "not_your_turn")
         /\ UNCHANGED << fixed, gameVars >>
    ELSE IF player_id \notin DOMAIN players
    THEN /\ ret' = Ret("submit_clue", "raise")
         /\ UNCHANGED << fixed, gameVars >>
    ELSE IF players[player_id].has_given_clue
    THEN /\ ret' = Error("submit_clue", "already_clued")
         /\ UNCHANGED << fixed, gameVars >>
    ELSE LET g0 == [Self EXCEPT !.players[player_id].has_given_clue = TRUE]
             g1 == [g0 EXCEPT
                      !.clues = Append(@, [player_name |-> players[player_id].name,
                                           clue |-> clue_upper(clue)])]
             r  == _start_next_player_turn(g1)
         IN  IF NotSingleWord(clue_upper(clue))
             THEN /\ Commit(g0)
                  /\ ret' = Error("submit_clue", "not_single_word")
                  /\ UNCHANGED fixed
             ELSE IF IsSecretWord(clue_upper(clue), word_pair)
             THEN /\ Commit(g0)
                  /\ ret' = Error("submit_clue", "secret_word")
                  /\ UNCHANGED fixed
             ELSE /\ Commit(r.g)
                  /\ ret' = Ret("submit_clue",
                                IF r.raised THEN "raise" ELSE "success")
                  /\ UNCHANGED fixed

\* Mutant of submit_clue: the clue is logged before it is validated.
submit_clue_ValidatesLate(player_id, clue) ==
    IF status # "IN_PROGRESS"
    THEN /\ ret' = Error("submit_clue", "not_clue_phase")
         /\ UNCHANGED << fixed, gameVars >>
    ELSE IF player_id # At(players_turn_order, current_turn_index)
    THEN /\ ret' = Error("submit_clue", "not_your_turn")
         /\ UNCHANGED << fixed, gameVars >>
    ELSE IF player_id \notin DOMAIN players
    THEN /\ ret' = Ret("submit_clue", "raise")
         /\ UNCHANGED << fixed, gameVars >>
    ELSE IF players[player_id].has_given_clue
    THEN /\ ret' = Error("submit_clue", "already_clued")
         /\ UNCHANGED << fixed, gameVars >>
    ELSE LET g1 == [Self EXCEPT
                      !.clues = Append(@, [player_name |-> players[player_id].name,
                                           clue |-> clue_upper(clue)]),
                      !.players[player_id].has_given_clue = TRUE]
             r  == _start_next_player_turn(g1)
         IN  IF NotSingleWord(clue_upper(clue))
             THEN /\ Commit(g1)
                  /\ ret' = Error("submit_clue", "not_single_word")
                  /\ UNCHANGED fixed
             ELSE IF IsSecretWord(clue_upper(clue), word_pair)
             THEN /\ Commit(g1)
                  /\ ret' = Error("submit_clue", "secret_word")
                  /\ UNCHANGED fixed
             ELSE /\ Commit(r.g)
                  /\ ret' = Ret("submit_clue",
                                IF r.raised THEN "raise" ELSE "success")
                  /\ UNCHANGED fixed

submit_clue(player_id, clue) ==
    IF status # "IN_PROGRESS"
    THEN /\ ret' = Error("submit_clue", "not_clue_phase")
         /\ UNCHANGED << fixed, gameVars >>
    ELSE IF player_id # At(players_turn_order, current_turn_index)
    THEN /\ ret' = Error("submit_clue", "not_your_turn")
         /\ UNCHANGED << fixed, gameVars >>
    ELSE IF player_id \notin DOMAIN players
    THEN /\ ret' = Ret("submit_clue", "raise")        \* KeyError, line 197
         /\ UNCHANGED << fixed, gameVars >>
    ELSE IF players[player_id].has_given_clue
    THEN /\ ret' = Error("submit_clue", "already_clued")
         /\ UNCHANGED << fixed, gameVars >>
    ELSE IF NotSingleWord(clue_upper(clue))
    THEN /\ ret' = Error("submit_clue", "not_single_word")
         /\ UNCHANGED << fixed, gameVars >>
    ELSE IF IsSecretWord(clue_upper(clue), word_pair)
    THEN /\ ret' = Error("submit_clue", "secret_word")
         /\ UNCHANGED << fixed, gameVars >>
    ELSE LET g1 == [Self EXCEPT
                      !.clues = Append(@, [player_name |-> players[player_id].name,
                                           clue |-> clue_upper(clue)]),
                      !.players[player_id].has_given_clue = TRUE]
             r  == _start_next_player_turn(g1)
         IN  /\ Commit(r.g)
             /\ ret' = Ret("submit_clue", IF r.raised THEN "raise" ELSE "success")
             /\ UNCHANGED fixed

(* ------------------------------ submit_vote ---------------------------- *)

\* Mutant of submit_vote: the status check of line 218 is missing.
submit_vote_AnyPhase(voter_id, voted_id) ==
    IF voter_id \notin DOMAIN players \/ voted_id \notin DOMAIN players
    THEN /\ ret' = Error("submit_vote", "invalid_player")
         /\ UNCHANGED << fixed, gameVars >>
    ELSE IF voter_id = voted_id
    THEN /\ ret' = Error("submit_vote", "self_vote")
         /\ UNCHANGED << fixed, gameVars >>
    ELSE IF players[voter_id].has_voted
    THEN /\ ret' = Error("submit_vote", "already_voted")
         /\ UNCHANGED << fixed, gameVars >>
    ELSE LET g1 == [Self EXCEPT
                      !.votes = (voter_id :> voted_id) @@ @,
                      !.players[voter_id].has_voted = TRUE]
         IN  IF Cardinality(DOMAIN g1.votes) = Cardinality(DOMAIN g1.players)
             THEN \E r \in process_votes(g1) :
                      /\ Commit(r.g)
                      /\ ret' = Ret("submit_vote",
                                    IF r.raised THEN "raise" ELSE "GAME_OVER")
                      /\ UNCHANGED fixed
             ELSE /\ Commit(g1)
                  /\ ret' = RetOf("submit_vote", "success", "",
                                    Cardinality(DOMAIN g1.players)
                                      - Cardinality(DOMAIN g1.votes))
                  /\ UNCHANGED fixed

submit_vote(voter_id, voted_id) ==
    IF status # "VOTING"
    THEN /\ ret' = Error("submit_vote", "not_voting")
         /\ UNCHANGED << fixed, gameVars >>
    ELSE IF voter_id \notin DOMAIN players \/ voted_id \notin DOMAIN players
    THEN /\ ret' = Error("submit_vote", "invalid_player")
         /\ UNCHANGED << fixed, gameVars >>
    ELSE IF voter_id = voted_id
    THEN /\ ret' = Error("submit_vote", "self_vote")
         /\ UNCHANGED << fixed, gameVars >>
    ELSE IF players[voter_id].has_voted
    THEN /\ ret' = Error("submit_vote", "already_voted")
         /\ UNCHANGED << fixed, gameVars >>
    ELSE LET g1 == [Self EXCEPT
                      !.votes = (voter_id :> voted_id) @@ @,
                      !.players[voter_id].has_voted = TRUE]
         IN  IF Cardinality(DOMAIN g1.votes) = Cardinality(DOMAIN g1.players)
             THEN \E r \in process_votes(g1) :
                      /\ Commit(r.g)
                      /\ ret' = Ret("submit_vote",
                                    IF r.raised THEN "raise" ELSE "GAME_OVER")
                      /\ UNCHANGED fixed
             ELSE /\ Commit(g1)
                  /\ ret' = RetOf("submit_vote", "success", "",
                                    Cardinality(DOMAIN g1.players)
                                      - Cardinality(DOMAIN g1.votes))
                  /\ UNCHANGED fixed

(* ------------------------------ check_timer ---------------------------- *)

\* Lines 293-295: the timer is set, not paused, and has run out.
TimerExpired ==
    /\ timer_start_time # None
    /\ ~timer_paused
    /\ elapsed >= timer_duration

check_timer ==
    IF TimerExpired /\ status = "IN_PROGRESS"
    THEN LET player_id == At(players_turn_order, current_turn_index)
         IN  IF player_id \notin DOMAIN players
             THEN /\ ret' = Ret("check_timer", "raise")   \* KeyError, line 300
                  /\ UNCHANGED << fixed, gameVars >>
             ELSE LET g1 == IF ~players[player_id].has_given_clue
                            THEN [Self EXCEPT
                                    !.clues = Append(@,
                                        [player_name |-> players[player_id].name,
                                         clue |-> PLACEHOLDER]),
                                    !.players[player_id].has_given_clue = TRUE]
                            ELSE Self
                      r  == _start_next_player_turn(g1)
                  IN  /\ Commit(r.g)
                      /\ ret' = Ret("check_timer",
                                    IF r.raised THEN "raise" ELSE "TURN_SKIPPED")
                      /\ UNCHANGED fixed
    ELSE IF TimerExpired /\ status = "VOTING"
    THEN \E r \in process_votes(Self) :
             /\ Commit(r.g)
             /\ ret' = Ret("check_timer", IF r.raised THEN "raise" ELSE "GAME_OVER")
             /\ UNCHANGED fixed
    ELSE /\ ret' = Ret("check_timer", "None")
         /\ UNCHANGED << fixed, gameVars >>

(* ---------------------------- the second match ------------------------- *)

\* The methods of Game as functions of the object they are called on: the
\* set of objects a call may leave.  They give the second match the calls
\* the first one gets.

Game_add_player(g, player_id, name) ==
    IF g.status # "WAITING_FOR_PLAYERS" \/ player_id \in DOMAIN g.players
    THEN {g}
    ELSE {[g EXCEPT !.players = @ @@ (player_id :> Player(name))]}

Game_remove_player(g, player_id) ==
    IF player_id \notin DOMAIN g.players
    THEN {g}
    ELSE IF g.status # "WAITING_FOR_PLAYERS" /\ player_id # host_id
    THEN {g}
    ELSE {[g EXCEPT !.players = [p \in DOMAIN g.players \ {player_id} |->
                                    g.players[p]]]}

\* start_game with the word pair and the turn order already drawn; the
\* impostor is any id of the turn order (line 141).
Game_start_game(g, wp, order) ==
    IF Cardinality(DOMAIN g.players) < MIN_PLAYERS
    THEN {g}
    ELSE IF g.status # "WAITING_FOR_PLAYERS"
    THEN {g}
    ELSE { _start_next_player_turn(
               [g EXCEPT !.status = "IN_PROGRESS",
                         !.word_pair = wp,
                         !.players_turn_order = order,
                         !.impostor_id = imp,
                         !.players = AssignRoles(g.players, imp, wp),
                         !.current_round = 1,
                         !.current_turn_index = -1]).g : imp \in Range(order) }

Game_submit_clue(g, player_id, clue) ==
    IF g.status # "IN_PROGRESS"
    THEN {g}
    ELSE IF player_id # At(g.players_turn_order, g.current_turn_index)
    THEN {g}
    ELSE IF player_id \notin DOMAIN g.players
    THEN {g}                                          \* KeyError, line 197
    ELSE IF g.players[player_id].has_given_clue
    THEN {g}
    ELSE IF NotSingleWord(clue_upper(clue))
    THEN {g}
    ELSE IF IsSecretWord(clue_upper(clue), g.word_pair)
    THEN {g}
    ELSE {_start_next_player_turn(
              [g EXCEPT
                 !.clues = Append(@, [player_name |-> g.players[player_id].name,
                                      clue |-> clue_upper(clue)]),
                 !.players[player_id].has_given_clue = TRUE]).g}

Game_submit_vote(g, voter_id, voted_id) ==
    IF g.status # "VOTING"
    THEN {g}
    ELSE IF voter_id \notin DOMAIN g.players \/ voted_id \notin DOMAIN g.players
    THEN {g}
    ELSE IF voter_id = voted_id
    THEN {g}
    ELSE IF g.players[voter_id].has_voted
    THEN {g}
    ELSE LET g1 == [g EXCEPT !.votes = (voter_id :> voted_id) @@ @,
                             !.players[voter_id].has_voted = TRUE]
         IN  IF Cardinality(DOMAIN g1.votes) = Cardinality(DOMAIN g1.players)
             THEN {r.g : r \in process_votes(g1)}
             ELSE {g1}

Game_check_timer(g) ==
    LET expired == /\ g.timer_start_time # None
                   /\ ~g.timer_paused
                   /\ g.elapsed >= g.timer_duration
        player_id == At(g.players_turn_order, g.current_turn_index)
    IN  IF expired /\ g.status = "IN_PROGRESS"
        THEN IF player_id \notin DOMAIN g.players
             THEN {g}                                 \* KeyError, line 300
             ELSE {_start_next_player_turn(
                      IF ~g.players[player_id].has_given_clue
                      THEN [g EXCEPT
                              !.clues = Append(@,
                                  [player_name |-> g.players[player_id].name,
                                   clue |-> PLACEHOLDER]),
                              !.players[player_id].has_given_clue = TRUE]
                      ELSE g).g}
        ELSE IF expired /\ g.status = "VOTING"
        THEN {r.g : r \in process_votes(g)}
        ELSE {g}

\* One more second on the clock both matches read.
Game_Tick(g) ==
    IF g.timer_start_time # None /\ ~g.timer_paused
    THEN {[g EXCEPT !.elapsed = @ + 1]}
    ELSE {g}

\* The second match after a call that may leave it as any object of S.
Twin(S) == twin' \in (IF twin = <<>> THEN {<<>>} ELSE S)

(* --------------------------------- clock ------------------------------- *)

\* time.time() advances by one second.  The code reads the clock only as
\* time.time() - self.timer_start_time, and only while a timer is set and
\* not paused; a reading further past the deadline changes nothing the
\* code computes, so the clock stops MaxLate seconds after the deadline.
Tick ==
    /\ timer_start_time # None
    /\ ~timer_paused
    /\ elapsed < timer_duration + MaxLate
    /\ elapsed' = elapsed + 1
    /\ Twin(Game_Tick(twin))
    /\ UNCHANGED << fixed, players, status, impostor_id, word_pair,
                    current_round, current_turn_index, players_turn_order,
                    clues, votes, timer_start_time, timer_duration,
                    timer_paused, results, ret >>

(* ------------------------------ specification -------------------------- *)

AddPlayer ==
    \E id \in Ids :
        /\ add_player(id, clients[id])
        /\ Twin(Game_add_player(twin, id, clients[id]))

RemovePlayer ==
    \E id \in Ids :
        /\ remove_player(id)
        /\ Twin(Game_remove_player(twin, id))

\* The second match starts with the word pair and the turn order of the
\* first, and any impostor.
StartGame ==
    /\ start_game
    /\ Twin(Game_start_game(twin, word_pair', players_turn_order'))

SubmitClue ==
    \E id \in Ids : \E clue \in ClueInputs(word_pair) :
        /\ submit_clue(id, clue)
        /\ Twin(Game_submit_clue(twin, id, clue))

SubmitVote ==
    \E voter \in Ids : \E voted \in Ids :
        /\ submit_vote(voter, voted)
        /\ Twin(Game_submit_vote(twin, voter, voted))

CheckTimer ==
    /\ check_timer
    /\ Twin(Game_check_timer(twin))

Next ==
    \/ AddPlayer
    \/ RemovePlayer
    \/ StartGame
    \/ SubmitClue
    \/ SubmitVote
    \/ CheckTimer
    \/ Tick

Spec == Init /\ [][Next]_vars

SpecObserved == InitObserved /\ [][Next]_vars

SpecZeroClueTime == InitZeroClueTime /\ [][Next]_vars

SpecTwin == InitTwin /\ [][Next]_vars

\* The clock keeps advancing while a timer runs, and check_timer keeps
\* being called.
Fairness == WF_vars(Tick) /\ WF_vars(CheckTimer)

SpecFair == Init /\ [][Next]_vars /\ Fairness

(* ================================ claims =============================== *)

Started == status # "WAITING_FOR_PLAYERS"

\* Position of a status on the path Lobby, ClueRounds, Voting, Finished.
Rank(st) ==
    CASE st = "WAITING_FOR_PLAYERS" -> 0
      [] st = "IN_PROGRESS" -> 1
      [] st = "VOTING" -> 2
      [] st = "FINISHED" -> 3

\* The step in which the match is resolved with an outcome.
Resolves == status # "FINISHED" /\ status' = "FINISHED" /\ results' # <<>>

RECURSIVE SumOver(_, _)
SumOver(f, S) ==
    IF S = {} THEN 0
    ELSE LET x == CHOOSE y \in S : TRUE IN f[x] + SumOver(f, S \ {x})

(* ---------------------------------- C1 --------------------------------- *)

\* The voters who cast a vote themselves (anyone else whose id is a key
\* of votes was given the abstention marker at resolution), and the
\* number of cast votes naming participant t.
CastVoters(vs, ps) == {v \in DOMAIN vs : v \in DOMAIN ps => ps[v].has_voted}

VotesFor(vs, ps, t) == Cardinality({v \in CastVoters(vs, ps) : vs[v] = t})

\* t alone holds the highest count of cast votes.
MostVotedAlone(vs, ps, t) ==
    /\ VotesFor(vs, ps, t) > 0
    /\ \A u \in Range(players_turn_order) \ {t} :
          VotesFor(vs, ps, u) < VotesFor(vs, ps, t)

\* C1: when a match is resolved, the winner is the Innocents exactly when
\* one participant alone holds the highest count of non-abstaining votes
\* and that participant is the impostor; otherwise it is the Impostor.
C1_WinnerRule ==
    [][ Resolves =>
          /\ results'.winner \in {"INOCENTES", "IMPOSTOR"}
          /\ results'.winner = "INOCENTES" <=>
                \E t \in Range(players_turn_order) :
                    /\ MostVotedAlone(votes', players', t)
                    /\ t = impostor_id ]_vars

(* ---------------------------------- C2 --------------------------------- *)

\* C2: while the status is ClueRounds the clue log holds fewer than
\* rounds_per_player x participant-count entries, and once it is Voting
\* or Finished it holds exactly that many.
C2_ClueLogCount ==
    LET full == config.rounds_per_player * Len(players_turn_order)
    IN  /\ status = "IN_PROGRESS" => Len(clues) < full
        /\ status \in {"VOTING", "FINISHED"} => Len(clues) = full

(* ---------------------------------- C3 --------------------------------- *)

\* C3: the status only moves forward along Lobby, ClueRounds, Voting,
\* Finished, one status at a time, and Finished is never left.
C3_StatusForward ==
    [][ /\ Rank(status') \in {Rank(status), Rank(status) + 1}
        /\ status = "FINISHED" => status' = "FINISHED" ]_vars

\* A match that went through every status, with calls made after the end.
C3_Witness ==
    /\ status = "FINISHED"
    /\ results # <<>>
    /\ host_id \notin DOMAIN players

(* ---------------------------------- C4 --------------------------------- *)

\* A call of one of the five methods that can turn a caller down.
Call == AddPlayer \/ RemovePlayer \/ StartGame \/ SubmitClue \/ SubmitVote

Denied(r) == r.kind \in {"False", "error"}

\* C4: a call that returns false or an error leaves every field of the
\* match as it was.
C4_DeniedChangesNothing ==
    [][ (Denied(ret') /\ gameVars' # gameVars) => ~Call ]_vars

\* A clue equal to a secret word was turned down during the clue rounds.
C4_Witness ==
    /\ ret.op = "submit_clue"
    /\ ret.error = "secret_word"
    /\ status = "IN_PROGRESS"
    /\ clues # <<>>

(* ---------------------------------- C5 --------------------------------- *)

\* The duration configured for the timer of the current status.
ConfiguredDuration ==
    IF status = "VOTING" THEN config.vote_time ELSE config.clue_time

\* No timer is armed, or it is paused, or its deadline is still ahead.
TimerNotDue ==
    \/ timer_start_time = None
    \/ timer_paused
    \/ elapsed < ConfiguredDuration

\* The last call was a check_timer that fired, and no time has passed
\* since (a firing that skips a turn arms a fresh timer).
JustFired ==
    /\ ret.op = "check_timer"
    /\ ret.kind \in {"TURN_SKIPPED", "GAME_OVER"}
    /\ ret.kind = "TURN_SKIPPED" => elapsed = 0

\* C5: check_timer has no effect before the deadline, and none
\* when the previous call was a check_timer that fired and nothing has
\* happened since, whatever the configured durations.
C5_TimerFiresOnce ==
    [][ (gameVars' # gameVars /\ (TimerNotDue \/ JustFired)) => ~CheckTimer ]_vars

\* The same statement restricted to configurations whose clue and vote
\* durations are both positive; this one holds.
C5_TimerFiresOncePositive ==
    [][ ( /\ config.clue_time > 0
          /\ config.vote_time > 0
          /\ gameVars' # gameVars
          /\ (TimerNotDue \/ JustFired) ) => ~CheckTimer ]_vars

\* check_timer has just skipped a turn under positive durations.
C5_Witness ==
    /\ config.clue_time > 0
    /\ config.vote_time > 0
    /\ JustFired
    /\ ret.kind = "TURN_SKIPPED"
    /\ status = "IN_PROGRESS"

(* ---------------------------------- C6 --------------------------------- *)

\* C6: at resolution the counts of the vote tally, the abstention bucket
\* included, add up to the number of participants.
C6_TallySum ==
    [][ Resolves =>
          SumOver(results'.votes_tally, DOMAIN results'.votes_tally)
            = Cardinality(DOMAIN players') ]_vars

(* ---------------------------------- C7 --------------------------------- *)

IsPermutationOf(list, S) ==
    /\ Len(list) = Cardinality(S)
    /\ Range(list) = S

\* C7: the start fixes players_turn_order as a permutation of the ids
\* present and impostor_id as one of them; no later call changes either.
C7_TurnOrderFixed ==
    [][ /\ (~Started /\ Started') =>
              /\ IsPermutationOf(players_turn_order', DOMAIN players)
              /\ impostor_id' \in Range(players_turn_order')
        /\ Started =>
              /\ players_turn_order' = players_turn_order
              /\ impostor_id' = impostor_id ]_vars

\* A finished match whose host has left: calls were made after the start,
\* one of them removing a participant.
C7_Witness ==
    /\ status = "FINISHED"
    /\ host_id \notin DOMAIN players
    /\ IsPermutationOf(players_turn_order, DOMAIN clients)

(* ---------------------------------- C8 --------------------------------- *)

\* C8: once started, exactly one current participant is the impostor, it
\* is impostor_id and sits in the turn order, and all others are innocent.
C8_OneImpostor ==
    Started =>
        /\ Cardinality({p \in DOMAIN players : players[p].role = "IMPOSTOR"}) = 1
        /\ \A p \in DOMAIN players :
              IF players[p].role = "IMPOSTOR"
              THEN p = impostor_id /\ p \in Range(players_turn_order)
              ELSE players[p].role = "INOCENTE"

(* ---------------------------------- C9 --------------------------------- *)

\* C9: votes never has more entries than there are participants, and
\* every voter id in it is a current participant.
C9_VotesWithinPlayers ==
    /\ Cardinality(DOMAIN votes) <= Cardinality(DOMAIN players)
    /\ DOMAIN votes \subseteq DOMAIN players

(* ---------------------------------- C10 -------------------------------- *)

\* C10: the clue log never holds more than rounds_per_player x (number of
\* current participants) entries.
C10_ClueLogBound ==
    Len(clues) <= config.rounds_per_player * Cardinality(DOMAIN players)

(* ---------------------------------- C11 -------------------------------- *)

\* The id seated at the current turn.
CurrentSeat == At(players_turn_order, current_turn_index)

\* A submit_clue call that was accepted.
AcceptedClue == SubmitClue /\ ret'.op = "submit_clue" /\ ret'.kind = "success"

\* A check_timer call made when the clue timer of the current seat is out.
ClueTimerExpiry == CheckTimer /\ TimerExpired /\ status = "IN_PROGRESS"

\* One advance-turn: the next seat, or seat 0 of the next round.
AdvancedOnce ==
    LET wrap == current_turn_index + 1 >= Len(players_turn_order)
    IN  /\ current_turn_index' = IF wrap THEN 0 ELSE current_turn_index + 1
        /\ current_round' = IF wrap THEN current_round + 1 ELSE current_round

\* The k-th entry of the clue log (from 0) carries the name of the
\* participant seated at k mod participant-count.
EntriesFollowOrder ==
    \A k \in 1..Len(clues) :
        clues[k].player_name =
            clients[players_turn_order[((k - 1) % Len(players_turn_order)) + 1]]

\* C11: every accepted submit_clue and every clue-timer expiry appends
\* exactly one entry, attributed to the participant at the current seat,
\* and advances the turn once; so the clue log follows the turn order.
C11_OneEntryPerTurn ==
    [][ (AcceptedClue \/ ClueTimerExpiry) =>
          /\ Len(clues') = Len(clues) + 1
          /\ SubSeq(clues', 1, Len(clues)) = clues
          /\ clues'[Len(clues')].player_name = clients[CurrentSeat]
          /\ AdvancedOnce
          /\ EntriesFollowOrder' ]_vars

(* ---------------------------------- C12 -------------------------------- *)

\* A submit_clue call by id that was turned down with an error.
RejectedClue(id) ==
    /\ \E clue \in ClueInputs(word_pair) : submit_clue(id, clue)
    /\ ret'.op = "submit_clue"
    /\ ret'.kind = "error"

NoAdvance == UNCHANGED << current_turn_index, current_round, status >>

\* C12: a rejected submit_clue advances no turn and leaves
\* has_given_clue false for the participant who sent it, whatever the
\* reason and whatever that participant did earlier in the round.
C12_RejectedLeavesFlagFalse ==
    [][ \A id \in Ids : RejectedClue(id) =>
          /\ NoAdvance
          /\ id \in DOMAIN players' => ~players'[id].has_given_clue ]_vars

\* The same with the flag left as it was before the call: a rejected
\* submit_clue advances no turn and changes no participant's
\* has_given_clue, so the sender's flag is false only if it was false.
\* (Only a submit_clue call sets ret.op to "submit_clue"; the clock, which
\* leaves ret alone, changes none of these fields.)
C12_RejectedLeavesFlagAsItWas ==
    [][ (ret'.op = "submit_clue" /\ ret'.kind = "error") =>
          /\ NoAdvance
          /\ players' = players ]_vars

\* A clue was turned down during the clue rounds, the first clue already
\* given: its sender may be the participant who gave that clue.
C12_Witness ==
    /\ ret.op = "submit_clue"
    /\ ret.error \in {"not_your_turn", "not_single_word", "secret_word"}
    /\ status = "IN_PROGRESS"
    /\ Len(clues) >= 1
    /\ \E p \in DOMAIN players : players[p].has_given_clue

(* ---------------------------------- C13 -------------------------------- *)

\* C13: remove_player(host_id) returns True every time it is called, in
\* every status; remove_player of another id returns True only while the
\* status is Lobby and returns False in every other status.
C13_HostLeaveAlwaysSucceeds ==
    [][ /\ remove_player(host_id) => ret'.kind = "True"
        /\ \A id \in Ids \ {host_id} :
              remove_player(id) =>
                  /\ ret'.kind = "True" => status = "WAITING_FOR_PLAYERS"
                  /\ status # "WAITING_FOR_PLAYERS" => ret'.kind = "False" ]_vars

(* ---------------------------------- C14 -------------------------------- *)

\* A submit_vote call that passed every check of lines 218-227.
AcceptedVote == SubmitVote /\ ret'.op = "submit_vote" /\ ret'.kind # "error"

\* The participants who have no recorded vote.
OweVote(vs, ps) == DOMAIN ps \ DOMAIN vs

\* C14: an accepted submit_vote that brings the number of recorded votes
\* to the number of participants finishes the match in that call and
\* returns the outcome; any other accepted submit_vote leaves the status
\* Voting and returns how many participants still owe a vote.  So the
\* status is never Voting with as many votes as participants.
C14_LastVoteResolves ==
    [][ /\ AcceptedVote =>
              IF Cardinality(DOMAIN votes) + 1 = Cardinality(DOMAIN players)
              THEN /\ status' = "FINISHED"
                   /\ ret'.kind = "GAME_OVER"
                   /\ results' # <<>>
              ELSE /\ status' = "VOTING"
                   /\ ret'.kind = "success"
                   /\ ret'.val = Cardinality(OweVote(votes', players'))
        /\ ~ ( /\ status' = "VOTING"
               /\ Cardinality(DOMAIN votes') = Cardinality(DOMAIN players') ) ]_vars

(* ---------------------------------- C15 -------------------------------- *)

\* C15: no call raises.  The last mutating call did not raise, and a call
\* of get_public_state made now would not raise either (a call of
\* get_private_player_data never does).
C15_NoFaults ==
    /\ ret.kind # "raise"
    /\ ~get_public_state(Self).raised

(* ---------------------------------- C16 -------------------------------- *)

\* C16: start_game changes the match only when the status is Lobby and
\* at least 3 participants are present; otherwise it returns an error and
\* changes nothing.  So a match that has left the Lobby has a turn order
\* of at least 3 ids.
C16_StartNeedsThree ==
    [][ /\ StartGame =>
              IF /\ status = "WAITING_FOR_PLAYERS"
                 /\ Cardinality(DOMAIN players) >= 3
              THEN /\ ret'.kind = "success"
                   /\ status' = "IN_PROGRESS"
              ELSE /\ ret'.kind = "error"
                   /\ gameVars' = gameVars
        /\ status' # "WAITING_FOR_PLAYERS" => Len(players_turn_order') >= 3 ]_vars

\* A start was refused in a match that was already under way.
C16_Witness ==
    /\ ret.op = "start_game"
    /\ ret.error = "already_started"
    /\ Len(players_turn_order) >= 3

(* ---------------------------------- C18 -------------------------------- *)

\* C18: results is empty while the status is not Finished, is filled in
\* the step that makes the match Finished, and never changes afterwards.
C18_ResultsOnceFinished ==
    [][ /\ status' # "FINISHED" => results' = <<>>
        /\ (status # "FINISHED" /\ status' = "FINISHED") => results' # <<>>
        /\ status = "FINISHED" => results' = results ]_vars

(* ---------------------------------- C19 -------------------------------- *)

\* C19: a submit_vote call changes the match only when the status is
\* Voting, voter and target are two different current participants and
\* the voter has no recorded vote; so nobody has a recorded vote for
\* themselves, and a recorded vote is never replaced or removed.
C19_VotesValidAndKept ==
    [][ /\ (SubmitVote /\ gameVars' # gameVars) =>
              /\ status = "VOTING"
              /\ \E voter, target \in DOMAIN players :
                    /\ voter # target
                    /\ voter \notin DOMAIN votes
                    /\ voter \in DOMAIN votes'
                    /\ votes'[voter] = target
        /\ \A p \in DOMAIN votes' : votes'[p] # p
        /\ \A p \in DOMAIN votes :
              p \in DOMAIN votes' /\ votes'[p] = votes[p] ]_vars

(* ---------------------------------- C17 -------------------------------- *)

\* The second match is run, and has started with another impostor.
OtherImpostor ==
    /\ twin # <<>>
    /\ Started
    /\ twin.impostor_id # impostor_id

\* The functions that drive the second match agree with the actions: with
\* the same impostor the second match is the first.
TwinFollowsSameCode ==
    (twin # <<>> /\ twin.impostor_id = impostor_id) => twin = Self

\* C17: two matches with the same participants, turn order and word pair
\* and a different impostor, given the same calls at the same times, have
\* the same snapshot in every state until the match is Finished; every
\* entry of the snapshot's participant list has the fields id and name
\* and no other.
C17_SnapshotHidesImpostor ==
    (twin # <<>> /\ status # "FINISHED") =>
        /\ get_public_state(Self) = get_public_state(twin)
        /\ ~get_public_state(Self).raised =>
              \A e \in get_public_state(Self).value.players :
                  DOMAIN e = {"id", "name"}

\* The two matches differ in the impostor and have reached the vote, one
\* vote cast, with clues in the log.
C17_Witness ==
    /\ OtherImpostor
    /\ status = "VOTING"
    /\ clues # <<>>
    /\ DOMAIN votes # {}
    /\ ~get_public_state(Self).raised
    /\ get_private_player_data(Self, impostor_id)
           # get_private_player_data(twin, impostor_id)

(* ---------------------------------- C20 -------------------------------- *)

\* C20: while the clock advances and check_timer keeps being called,
\* every started match eventually is Finished, whether or not anyone
\* submits a clue or a vote.
C20_EventuallyFinished == Started ~> (status = "FINISHED")

(* ---------------------------------- C21 -------------------------------- *)

\* No vote is recorded and no participant is marked as having voted.
VotesCleared ==
    /\ DOMAIN votes = {}
    /\ \A p \in DOMAIN players : ~players[p].has_voted

\* C21: in every state with status WAITING_FOR_PLAYERS or IN_PROGRESS the
\* vote map is empty and no participant is marked as having voted, and
\* the step that enters VOTING leaves the match so.
C21_VotingStartsCleared ==
    /\ [](status \in {"WAITING_FOR_PLAYERS", "IN_PROGRESS"} => VotesCleared)
    /\ [][(status # "VOTING" /\ status' = "VOTING") => VotesCleared']_vars

\* The match has gone through its clue turns and is in VOTING with no
\* vote cast yet.
C21_Witness ==
    /\ status = "VOTING"
    /\ Len(clues) = Len(players_turn_order) * config.rounds_per_player
    /\ clues # <<>>
    /\ VotesCleared

(* ---------------------------------- C22 -------------------------------- *)

\* The turn index points into the turn order, and the participant seated
\* there has not given the clue of this round.
SeatReady ==
    /\ current_turn_index \in 0 .. Len(players_turn_order) - 1
    /\ CurrentSeat \in DOMAIN players
    /\ ~players[CurrentSeat].has_given_clue

\* The clue log with the placeholder entry of the current seat added.
WithPlaceholder ==
    Append(clues, [player_name |-> clients[CurrentSeat], clue |-> PLACEHOLDER])

\* C22: whenever status is IN_PROGRESS the turn index is within the turn
\* order and the participant at the current seat has has_given_clue
\* false; no submit_clue is turned down as already clued; and every
\* clue-timer expiry in IN_PROGRESS writes the placeholder entry.
C22_SeatReadyInClueRounds ==
    /\ [](status = "IN_PROGRESS" => SeatReady)
    /\ [][ret'.op = "submit_clue" => ret'.error # "already_clued"]_vars
    /\ [][ClueTimerExpiry => clues' = WithPlaceholder]_vars

====
